---- MODULE Spec2Model ----
(***************************************************************************)
(* The TK905 ingestion server: TCP stream framing, frame decoding, policy  *)
(* filter, Device State Store, durable log dispatch and forwarding.        *)
(*                                                                         *)
(* A JavaScript string is a sequence of one-character strings.  A nullable *)
(* number is boxed: <<n>> is the number n and <<>> is null (or NaN before  *)
(* the code turns it into null).  Numeric tokens are integer literals.     *)
(***************************************************************************)
EXTENDS Integers, Sequences, FiniteSets, TLC

VARIABLES
  FORWARD_ENABLED,            \* config, fixed for the process lifetime
  FORWARD_ONLY_VALID,
  FORWARD_ALLOW_ZERO_COORDS,
  open,                       \* connections whose socket is open
  buffer,                     \* per open connection: the closure's `buffer`
  lastPositions,              \* the Device State Store
  appends,                    \* fs.appendFile calls, in dispatch order
  forwards,                   \* forwardPosition calls, in dispatch order
  clock,                      \* wall clock; one tick per data event
  ev,                         \* what the step just taken did (its inputs and console output)
  httpRes,                    \* the REST response emitted by the step just taken
  lastDecoded,                \* per device: the record decoded from its latest frame
  written,                    \* the records assigned to the store at line 148, in order
  fIn,                        \* framing runs: the part of the stream not yet delivered
  fDone,                      \* framing runs: the part of the stream delivered so far
  fBuf,                       \* framing runs: the connection's buffer
  fFrames,                    \* framing runs: frames extracted so far
  fOut,                       \* framing runs: records decoded so far
  fSpan,                      \* framing runs: a frame begun in one chunk was decoded in a later one
  isoArgs,                    \* toIso runs: the two arguments
  isoRes                      \* toIso runs: the result

vars == <<FORWARD_ENABLED, FORWARD_ONLY_VALID, FORWARD_ALLOW_ZERO_COORDS, open,
          buffer, lastPositions, appends, forwards, clock, ev, httpRes, lastDecoded,
          written, fIn, fDone, fBuf, fFrames, fOut, fSpan, isoArgs, isoRes>>

serverVars == <<FORWARD_ENABLED, FORWARD_ONLY_VALID, FORWARD_ALLOW_ZERO_COORDS, open,
                buffer, lastPositions, appends, forwards, clock, ev, httpRes, lastDecoded,
                written>>
framingVars == <<fIn, fDone, fBuf, fFrames, fOut, fSpan>>
isoVars == <<isoArgs, isoRes>>

-----------------------------------------------------------------------------
(* JavaScript values and built-ins, as the code uses them *)

NULL == <<>>
NaN == <<>>
\* parseFrame's `return null`
NoRecord == [null |-> TRUE]

Abs(n) == IF n < 0 THEN -n ELSE n

\* String.prototype.indexOf(ch, from): the 0-based index, or -1
RECURSIVE indexOf(_, _, _)
indexOf(buf, ch, from) ==
  IF from >= Len(buf) THEN -1
  ELSE IF buf[from + 1] = ch THEN from
  ELSE indexOf(buf, ch, from + 1)

\* String.prototype.lastIndexOf(ch): the 0-based index, or -1
lastIndexOf(buf, ch) ==
  LET hits == {i \in 0..(Len(buf) - 1) : buf[i + 1] = ch}
  IN IF hits = {} THEN -1 ELSE CHOOSE i \in hits : \A j \in hits : j <= i

\* String.prototype.slice(a, b) for 0 <= a, b <= length
slice(buf, a, b) == SubSeq(buf, a + 1, b)

\* String.prototype.split(sep), sep one character
RECURSIVE split(_, _)
split(s, sep) ==
  LET i == indexOf(s, sep, 0)
  IN IF i = -1 THEN <<s>>
     ELSE <<slice(s, 0, i)>> \o split(slice(s, i + 1, Len(s)), sep)

\* Array.prototype.join(sep)
RECURSIVE join(_, _)
join(parts, sep) ==
  IF Len(parts) = 0 THEN <<>>
  ELSE IF Len(parts) = 1 THEN parts[1]
  ELSE parts[1] \o <<sep>> \o join(Tail(parts), sep)

Digits == {"0", "1", "2", "3", "4", "5", "6", "7", "8", "9"}

DigitVal(c) ==
  CASE c = "0" -> 0 [] c = "1" -> 1 [] c = "2" -> 2 [] c = "3" -> 3 [] c = "4" -> 4
    [] c = "5" -> 5 [] c = "6" -> 6 [] c = "7" -> 7 [] c = "8" -> 8 [] c = "9" -> 9

IsDigits(s) == \A i \in 1..Len(s) : s[i] \in Digits

RECURSIVE DecimalValue(_)
DecimalValue(s) ==
  IF Len(s) = 0 THEN 0
  ELSE 10 * DecimalValue(SubSeq(s, 1, Len(s) - 1)) + DigitVal(s[Len(s)])

\* Number(v) on the tokens of the model: "" is 0, an optionally signed run of
\* digits is its value, anything else is NaN
Number(v) ==
  IF Len(v) = 0 THEN <<0>>
  ELSE LET neg == v[1] = "-"
           digits == IF neg THEN Tail(v) ELSE v
       IN IF Len(digits) = 0 \/ ~IsDigits(digits) THEN NaN
          ELSE <<(IF neg THEN -1 ELSE 1) * DecimalValue(digits)>>

isFinite(x) == x # NaN

-----------------------------------------------------------------------------
(* Frame Extractor *)

\* the while loop of extractFrames
RECURSIVE extractLoop(_, _, _)
extractLoop(buf, start, frames) ==
  IF start = -1 THEN frames
  ELSE LET end == indexOf(buf, "]", start + 1)
       IN IF end = -1 THEN frames
          ELSE extractLoop(buf, indexOf(buf, "[", end + 1),
                           Append(frames, slice(buf, start, end + 1)))

\* a mutant of remainderOf: an unterminated tail is not retained
remainderOf_dropTail(buf) ==
  LET remainderIdx == lastIndexOf(buf, "]")
  IN IF remainderIdx = -1 THEN <<>> ELSE slice(buf, remainderIdx + 1, Len(buf))

\* a mutant of remainderOf: nothing is consumed
remainderOf_keepAll(buf) == buf

remainderOf(buf) ==
  LET remainderIdx == lastIndexOf(buf, "]")
  IN IF remainderIdx = -1 THEN buf ELSE slice(buf, remainderIdx + 1, Len(buf))

extractFrames(buf) ==
  [frames |-> extractLoop(buf, indexOf(buf, "[", 0), <<>>),
   remainder |-> remainderOf(buf)]

-----------------------------------------------------------------------------
(* Coordinate/Time Normalizer *)

\* a mutant of signedCoord: a non-numeric coordinate becomes 0
signedCoord_zeroOnNaN(v, hemi) ==
  LET n == Number(v)
  IN IF n = NaN THEN <<0>>
     ELSE IF hemi = <<"S">> \/ hemi = <<"W">> THEN <<-Abs(n[1])>> ELSE <<Abs(n[1])>>

signedCoord(v, hemi) ==
  LET n == Number(v)
  IN IF n = NaN THEN NULL
     ELSE IF hemi = <<"S">> \/ hemi = <<"W">> THEN <<-Abs(n[1])>> ELSE <<Abs(n[1])>>

\* days since 1970-01-01 of the civil date (y, m, d), m in 1..12
DaysFromCivil(y, m, d) ==
  LET yy == IF m <= 2 THEN y - 1 ELSE y
      era == yy \div 400
      yoe == yy - era * 400
      mp == IF m > 2 THEN m - 3 ELSE m + 9
      doy == (153 * mp + 2) \div 5 + d - 1
      doe == yoe * 365 + yoe \div 4 - yoe \div 100 + doy
  IN era * 146097 + doe - 719468

\* the civil date <<y, m, d>> of a day number
CivilFromDays(z) ==
  LET zz == z + 719468
      era == zz \div 146097
      doe == zz - era * 146097
      yoe == (doe - doe \div 1460 + doe \div 36524 - doe \div 146096) \div 365
      doy == doe - (365 * yoe + yoe \div 4 - yoe \div 100)
      mp == (5 * doy + 2) \div 153
      d == doy - (153 * mp + 2) \div 5 + 1
      m == IF mp < 10 THEN mp + 3 ELSE mp - 9
      y == yoe + era * 400
  IN <<IF m <= 2 THEN y + 1 ELSE y, m, d>>

\* Date.UTC(y, m, d, H, M, S) as <<day number, second of the day>>: MakeDay
\* carries an out-of-range month into the year and an out-of-range day into the
\* months, MakeTime an out-of-range hour, minute or second into the days
DateUTC(y, m, d, H, M, S) ==
  LET ym == y + (m \div 12)
      mn == m % 12
      day == DaysFromCivil(ym, mn + 1, 1) + d - 1
      sec == H * 3600 + M * 60 + S
  IN <<day + sec \div 86400, sec % 86400>>

\* Date.prototype.toISOString(): <<year, month, day, hour, minute, second>> of
\* the text YYYY-MM-DDTHH:mm:ss.000Z
toISOString(t) ==
  LET ymd == CivilFromDays(t[1])
      sec == t[2]
  IN <<ymd[1], ymd[2], ymd[3], sec \div 3600, (sec % 3600) \div 60, sec % 60>>

toIso(dmy, hms) ==
  IF ~(Len(dmy) = 6 /\ IsDigits(dmy)) \/ ~(Len(hms) = 6 /\ IsDigits(hms)) THEN NULL
  ELSE LET d == Number(slice(dmy, 0, 2))[1]
           m == Number(slice(dmy, 2, 4))[1] - 1
           y == Number(slice(dmy, 4, 6))[1] + 2000
           H == Number(slice(hms, 0, 2))[1]
           M == Number(slice(hms, 2, 4))[1]
           S == Number(slice(hms, 4, 6))[1]
       \* the time value of these arguments is never NaN, so the isNaN branch
       \* of line 55 is not taken
       IN toISOString(DateUTC(y, m, d, H, M, S))

-----------------------------------------------------------------------------
(* Protocol Decoder *)

parseFrame(frame, now) ==
  LET body == slice(frame, 1, Len(frame) - 1)
      parts == split(body, "*")
  IN IF Len(parts) < 4 THEN NoRecord
     ELSE LET vendor == parts[1]
              deviceId == parts[2]
              payload == join(SubSeq(parts, 4, Len(parts)), "*")
              toks == split(payload, ",")
              cmd == toks[1]
              csv == Tail(toks)
          IN IF Len(csv) < 9
             THEN [deviceId |-> deviceId, vendor |-> vendor, cmd |-> cmd, raw |-> payload]
             ELSE LET speedKph == Number(csv[8])
                      course == Number(csv[9])
                  IN [deviceId |-> deviceId, vendor |-> vendor, cmd |-> cmd,
                      time |-> toIso(csv[1], csv[2]),
                      valid |-> (csv[3] = <<"A">>),
                      lat |-> signedCoord(csv[4], csv[5]),
                      lon |-> signedCoord(csv[6], csv[7]),
                      speedKph |-> IF isFinite(speedKph) THEN speedKph ELSE NULL,
                      course |-> IF isFinite(course) THEN course ELSE NULL,
                      raw |-> payload,
                      receivedAt |-> now]

-----------------------------------------------------------------------------
(* Forwarder *)

\* String(n) of an integer: its decimal text
RECURSIVE DecimalText(_)
DecimalText(n) ==
  LET d == CHOOSE c \in Digits : DigitVal(c) = n % 10
  IN IF n < 10 THEN <<d>> ELSE Append(DecimalText(n \div 10), d)

String(n) == IF n < 0 THEN <<"-">> \o DecimalText(-n) ELSE DecimalText(n)

\* kphToKnots(kph).toFixed(2): kph * 0.539956803 rounded to hundredths
knotsToFixed2(kph) ==
  LET a == Abs(kph)
      h == (a * 539 + (a * 956803 + 5000000) \div 1000000) \div 10
      frac == DecimalText(h % 100)
  IN (IF kph < 0 THEN <<"-">> ELSE <<>>) \o DecimalText(h \div 100) \o <<".">>
       \o (IF Len(frac) = 1 THEN <<"0">> ELSE <<>>) \o frac

\* the synchronous part of forwardPosition, up to `await fetch`: the query
\* parameters are built from the record and the request is in flight
forwardPosition(pos) ==
  [params |->
     <<<<"id", pos.deviceId>>, <<"lat", String(pos.lat[1])>>, <<"lon", String(pos.lon[1])>>>>
     \o (IF pos.time # NULL THEN <<<<"timestamp", pos.time>>>> ELSE <<>>)
     \o <<<<"valid", pos.valid>>>>
     \o (IF pos.speedKph # NULL THEN <<<<"speed", knotsToFixed2(pos.speedKph[1])>>>> ELSE <<>>)
     \o (IF pos.course # NULL THEN <<<<"bearing", String(pos.course[1])>>>> ELSE <<>>),
   st |-> "pending"]

-----------------------------------------------------------------------------
(* Policy Filter *)

\* a mutant of hasUsableCoords: only null coordinates are rejected
hasUsableCoords_nonNull(pos) ==
  "lat" \in DOMAIN pos /\ pos.lat # NULL /\ pos.lon # NULL

\* a mutant of hasUsableCoords: the ranges are not checked
hasUsableCoords_noRange(pos) ==
  /\ "lat" \in DOMAIN pos
  /\ isFinite(pos.lat)
  /\ isFinite(pos.lon)
  /\ (FORWARD_ALLOW_ZERO_COORDS \/ ~(pos.lat = <<0>> /\ pos.lon = <<0>>))

\* a mutant of hasUsableCoords: the (0,0) sentinel is not rejected
hasUsableCoords_zeroAllowed(pos) ==
  /\ "lat" \in DOMAIN pos
  /\ isFinite(pos.lat)
  /\ isFinite(pos.lon)
  /\ Abs(pos.lat[1]) <= 90
  /\ Abs(pos.lon[1]) <= 180

hasUsableCoords(pos) ==
  LET ok == /\ "lat" \in DOMAIN pos
            /\ isFinite(pos.lat)
            /\ isFinite(pos.lon)
            /\ Abs(pos.lat[1]) <= 90
            /\ Abs(pos.lon[1]) <= 180
  IN IF ~ok THEN FALSE
     ELSE IF ~FORWARD_ALLOW_ZERO_COORDS /\ pos.lat = <<0>> /\ pos.lon = <<0>> THEN FALSE
     ELSE TRUE

\* a mutant of policyAllows: the valid flag is not consulted
policyAllows_always(pos) == TRUE

policyAllows(pos) == ~FORWARD_ONLY_VALID \/ pos.valid = TRUE

-----------------------------------------------------------------------------
(* Connection Handler *)

\* JSON.stringify(pos): the record's own fields in insertion order, each with
\* the text of its value (a position record is the only thing stringified)
JSONstringify(pos) ==
  LET str(v) == <<"\"">> \o v \o <<"\"">>
      num(v) == IF v = NULL THEN <<"n", "u", "l", "l">> ELSE String(v[1])
  IN <<<<"deviceId", str(pos.deviceId)>>, <<"vendor", str(pos.vendor)>>,
       <<"cmd", str(pos.cmd)>>, <<"time", pos.time>>, <<"valid", pos.valid>>,
       <<"lat", num(pos.lat)>>, <<"lon", num(pos.lon)>>,
       <<"speedKph", num(pos.speedKph)>>, <<"course", num(pos.course)>>,
       <<"raw", str(pos.raw)>>, <<"receivedAt", pos.receivedAt>>>>

\* a mutant of Put: the store is replaced by the one entry
Put_alone(store, k, v) == [x \in {k} |-> v]

\* lastPositions[k] = v
Put(store, k, v) == [x \in DOMAIN store \cup {k} |-> IF x = k THEN v ELSE store[x]]

\* a mutant of mergeLastEvent: the existing entry is not spread
mergeLastEvent_fresh(store, pos) == [lastEvent |-> pos]

\* { ...(lastPositions[id] || {}), lastEvent: pos }
mergeLastEvent(store, pos) ==
  LET id == pos.deviceId
      old == IF id \in DOMAIN store THEN store[id] ELSE <<>>
  IN [f \in DOMAIN old \cup {"lastEvent"} |-> IF f = "lastEvent" THEN pos ELSE old[f]]

\* the usable-coordinates branch of the loop body
routeUsable(s, pos) ==
  LET fwd == FORWARD_ENABLED /\ policyAllows(pos)
  IN [lastPositions |-> Put(s.lastPositions, pos.deviceId, pos),
      written |-> Append(s.written, pos),
      appends |-> Append(s.appends, [line |-> JSONstringify(pos), st |-> "pending"]),
      forwards |-> IF fwd THEN Append(s.forwards, forwardPosition(pos)) ELSE s.forwards,
      console |-> Append(s.console, IF fwd THEN "POS->FWD" ELSE "POS->SKIP")]

\* a mutant of routeEvent: a position without usable coordinates is logged too
routeEvent_logged(s, pos) ==
  [s EXCEPT !.lastPositions = Put(@, pos.deviceId, mergeLastEvent(@, pos)),
            !.appends = IF "lat" \in DOMAIN pos
                        THEN Append(@, [line |-> JSONstringify(pos), st |-> "pending"])
                        ELSE @,
            !.console = Append(@, "EVT")]

\* the other branch of the loop body
routeEvent(s, pos) ==
  [s EXCEPT !.lastPositions = Put(@, pos.deviceId, mergeLastEvent(@, pos)),
            !.console = Append(@, "EVT")]

\* one iteration of `for (const frame of frames)`
routeFrame(s, frame, now) ==
  LET pos == parseFrame(frame, now)
  IN IF pos = NoRecord THEN s
     ELSE IF hasUsableCoords(pos) THEN routeUsable(s, pos)
     ELSE routeEvent(s, pos)

\* a mutant of routeAll: a decode failure ends the loop (break for continue)
RECURSIVE routeAll_breakOnNull(_, _, _)
routeAll_breakOnNull(s, frames, now) ==
  IF Len(frames) = 0 THEN s
  ELSE IF parseFrame(Head(frames), now) = NoRecord THEN s
  ELSE routeAll_breakOnNull(routeFrame(s, Head(frames), now), Tail(frames), now)

RECURSIVE routeAll(_, _, _)
routeAll(s, frames, now) ==
  IF Len(frames) = 0 THEN s
  ELSE routeAll(routeFrame(s, Head(frames), now), Tail(frames), now)

-----------------------------------------------------------------------------
(* Inputs of the server runs: devices, frames and the chunks a socket delivers *)

Conns == {"c1", "c2"}

D1 == <<"1">>
D2 == <<"2">>
D9 == <<"9">>

\* [SG*<id>*X*UD,<ddmmyy>,<hhmmss>,<A|V>,<lat>,<N|S>,<lon>,<E|W>,<speed>,<course>]
GpsFrame(id, csv) ==
  <<"[", "S", "G", "*">> \o id \o <<"*", "X", "*", "U", "D", ",">> \o join(csv, ",") \o <<"]">>

\* [SG*<id>*X*LK]
EvtFrame(id) == <<"[", "S", "G", "*">> \o id \o <<"*", "X", "*", "L", "K", "]">>

\* device 1, valid fix, 5N 7E, dated 2025-01-01T12:00:00Z
FramePosA ==
  GpsFrame(D1, <<<<"0", "1", "0", "1", "2", "5">>, <<"1", "2", "0", "0", "0", "0">>, <<"A">>,
                 <<"5">>, <<"N">>, <<"7">>, <<"E">>, <<"3", "6">>, <<"9", "0">>>>)
\* device 1, invalid fix, 5S 7W, no date, negative speed, non-numeric course
FramePosV ==
  GpsFrame(D1, <<<<>>, <<>>, <<"V">>, <<"5">>, <<"S">>, <<"7">>, <<"W">>, <<"-", "3">>, <<"x">>>>)
\* device 2, valid fix, the (0,0) sentinel
FrameZero ==
  GpsFrame(D2, <<<<>>, <<>>, <<"A">>, <<"0">>, <<"N">>, <<"0">>, <<"E">>, <<"0">>, <<"0">>>>)
\* device 2, latitude out of range
FrameFar ==
  GpsFrame(D2, <<<<>>, <<>>, <<"A">>, <<"9", "5">>, <<"N">>, <<"7">>, <<"E">>, <<"1">>, <<"1">>>>)
\* device 2, invalid fix, 6N 8E, sent in two pieces
FrameSplit ==
  GpsFrame(D2, <<<<>>, <<>>, <<"V">>, <<"6">>, <<"N">>, <<"8">>, <<"E">>, <<"2">>, <<"4">>>>)
\* a frame with fewer than 4 *-components
FrameShort == <<"[", "S", "G", "*", "1", "]">>

Chunks ==
  { FramePosA \o EvtFrame(D1),
    FramePosV,
    FrameZero,
    FrameFar,
    FrameShort \o EvtFrame(D2),
    SubSeq(FrameSplit, 1, 14),
    SubSeq(FrameSplit, 15, Len(FrameSplit)) }

MaxData == 2

NoEvent == [kind |-> "none", input |-> <<>>, console |-> <<>>]
NoResponse == [status |-> 0, body |-> <<>>]

\* the records the loop goes on with: `if (!pos) continue`
RECURSIVE decodeAll(_, _)
decodeAll(frames, now) ==
  IF Len(frames) = 0 THEN <<>>
  ELSE LET pos == parseFrame(Head(frames), now)
       IN (IF pos = NoRecord THEN <<>> ELSE <<pos>>) \o decodeAll(Tail(frames), now)

\* the latest record of each device after `recs` are processed
latestOf(latest, recs) ==
  LET ids == {recs[i].deviceId : i \in 1..Len(recs)}
      lastIdx(d) == CHOOSE i \in 1..Len(recs) :
                      /\ recs[i].deviceId = d
                      /\ \A j \in (i + 1)..Len(recs) : recs[j].deviceId # d
  IN [d \in DOMAIN latest \cup ids |-> IF d \in ids THEN recs[lastIdx(d)] ELSE latest[d]]

-----------------------------------------------------------------------------
(* The server *)

\* <<FORWARD_ENABLED, FORWARD_ONLY_VALID, FORWARD_ALLOW_ZERO_COORDS>> as the
\* environment sets them: the defaults of lines 15-18, and each flag flipped
Configs == {<<TRUE, TRUE, FALSE>>, <<FALSE, TRUE, FALSE>>, <<TRUE, FALSE, FALSE>>,
            <<TRUE, TRUE, TRUE>>}

Init ==
  /\ \E cfg \in Configs :
       /\ FORWARD_ENABLED = cfg[1]
       /\ FORWARD_ONLY_VALID = cfg[2]
       /\ FORWARD_ALLOW_ZERO_COORDS = cfg[3]
  /\ open = {}
  /\ buffer = [c \in {} |-> <<>>]
  /\ lastPositions = [d \in {} |-> <<>>]
  /\ appends = <<>>
  /\ forwards = <<>>
  /\ clock = 0
  /\ ev = NoEvent
  /\ httpRes = NoResponse
  /\ lastDecoded = [d \in {} |-> <<>>]
  /\ written = <<>>
  /\ fIn = <<>> /\ fDone = <<>> /\ fBuf = <<>> /\ fFrames = <<>> /\ fOut = <<>>
  /\ fSpan = FALSE
  /\ isoArgs = <<>> /\ isoRes = [done |-> FALSE]

config == <<FORWARD_ENABLED, FORWARD_ONLY_VALID, FORWARD_ALLOW_ZERO_COORDS>>

\* net.createServer's callback: a new connection with its own empty buffer
Connect(c) ==
  /\ c \notin open
  /\ open' = open \cup {c}
  /\ buffer' = [x \in open \cup {c} |-> IF x = c THEN <<>> ELSE buffer[x]]
  /\ ev' = [kind |-> "socket", input |-> <<>>, console |-> <<"TCP Connection">>]
  /\ httpRes' = NoResponse
  /\ UNCHANGED <<config, lastPositions, appends, forwards, clock, lastDecoded, written, framingVars, isoVars>>

\* a mutant of dataHandled: the handler awaits the forwards it dispatched
dataHandled_awaitsForwards(c) ==
  c \in open /\ \A i \in 1..Len(forwards) : forwards[i].st # "pending"

\* whether a data event of connection c is handled now
dataHandled(c) == c \in open

\* socket.on('data')
Data(c, chunk) ==
  /\ dataHandled(c)
  /\ clock < MaxData
  /\ LET input == buffer[c] \o chunk
         x == extractFrames(input)
         s == routeAll([lastPositions |-> lastPositions, written |-> written,
                        appends |-> appends, forwards |-> forwards,
                        console |-> <<>>],
                       x.frames, clock + 1)
     IN /\ buffer' = [buffer EXCEPT ![c] = x.remainder]
        /\ lastPositions' = s.lastPositions
        /\ written' = s.written
        /\ appends' = s.appends
        /\ forwards' = s.forwards
        /\ ev' = [kind |-> "data", input |-> input, console |-> s.console]
        /\ lastDecoded' = latestOf(lastDecoded, decodeAll(x.frames, clock + 1))
  /\ clock' = clock + 1
  /\ httpRes' = NoResponse
  /\ UNCHANGED <<config, open, framingVars, isoVars>>

\* a mutant of Close: one buffer shared by the connections is reset
Close_resetsAll(c, hadError) ==
  /\ c \in open
  /\ open' = open \ {c}
  /\ buffer' = [x \in open \ {c} |-> <<>>]
  /\ ev' = [kind |-> "socket", input |-> <<>>,
            console |-> IF hadError THEN <<"TCP Error", "TCP Closed">> ELSE <<"TCP Closed">>]
  /\ httpRes' = NoResponse
  /\ UNCHANGED <<config, lastPositions, appends, forwards, clock, lastDecoded, written, framingVars, isoVars>>

\* socket.on('error') and socket.on('close'): the handlers only log; the closure
\* and its buffer are gone with the socket
Close(c, hadError) ==
  /\ c \in open
  /\ open' = open \ {c}
  /\ buffer' = [x \in open \ {c} |-> buffer[x]]
  /\ ev' = [kind |-> "socket", input |-> <<>>,
            console |-> IF hadError THEN <<"TCP Error", "TCP Closed">> ELSE <<"TCP Closed">>]
  /\ httpRes' = NoResponse
  /\ UNCHANGED <<config, lastPositions, appends, forwards, clock, lastDecoded, written, framingVars, isoVars>>

\* a mutant of AppendDone: the callback throws the error, and the process and
\* its connections are gone
AppendDone_throws(i, err) ==
  /\ i \in 1..Len(appends)
  /\ appends[i].st = "pending"
  /\ appends' = [appends EXCEPT ![i].st = "done"]
  /\ ev' = [kind |-> "io", input |-> <<>>,
            console |-> IF err THEN <<"File write error">> ELSE <<>>]
  /\ httpRes' = NoResponse
  /\ open' = IF err THEN {} ELSE open
  /\ buffer' = IF err THEN [c \in {} |-> <<>>] ELSE buffer
  /\ UNCHANGED <<config, lastPositions, forwards, clock, lastDecoded, written, framingVars, isoVars>>

\* the callback of fs.appendFile
AppendDone(i, err) ==
  /\ i \in 1..Len(appends)
  /\ appends[i].st = "pending"
  /\ appends' = [appends EXCEPT ![i].st = "done"]
  /\ ev' = [kind |-> "io", input |-> <<>>,
            console |-> IF err THEN <<"File write error">> ELSE <<>>]
  /\ httpRes' = NoResponse
  /\ UNCHANGED <<config, open, buffer, lastPositions, forwards, clock, lastDecoded, written,
                 framingVars, isoVars>>

\* a mutant of FetchDone: the request is built from the store when it is sent
FetchDone_readsStore(i, outcome) ==
  /\ i \in 1..Len(forwards)
  /\ forwards[i].st = "pending"
  /\ forwards' = [forwards EXCEPT
                    ![i] = [params |-> forwardPosition(lastPositions[forwards[i].params[1][2]]).params,
                            st |-> "done"]]
  /\ ev' = [kind |-> "io", input |-> <<>>,
            console |-> CASE outcome = "ok" -> <<"FWD OK">>
                          [] outcome = "http" -> <<"FWD HTTP">>
                          [] OTHER -> <<"FWD Error">>]
  /\ httpRes' = NoResponse
  /\ UNCHANGED <<config, open, buffer, lastPositions, appends, clock, lastDecoded, written,
                 framingVars, isoVars>>

\* a mutant of FetchDone: a failed attempt is queued again
FetchDone_retries(i, outcome) ==
  /\ i \in 1..Len(forwards)
  /\ forwards[i].st = "pending"
  /\ forwards' = IF outcome = "ok" THEN [forwards EXCEPT ![i].st = "done"]
                 ELSE Append([forwards EXCEPT ![i].st = "done"], forwards[i])
  /\ ev' = [kind |-> "io", input |-> <<>>,
            console |-> CASE outcome = "ok" -> <<"FWD OK">>
                          [] outcome = "http" -> <<"FWD HTTP">>
                          [] OTHER -> <<"FWD Error">>]
  /\ httpRes' = NoResponse
  /\ UNCHANGED <<config, open, buffer, lastPositions, appends, clock, lastDecoded, written,
                 framingVars, isoVars>>

\* forwardPosition after `await fetch`: a 2xx response, another response, or a
\* rejection (a network error, or the abort of the timeout of this call)
FetchOutcomes == {"ok", "http", "error", "aborted"}

FetchDone(i, outcome) ==
  /\ i \in 1..Len(forwards)
  /\ forwards[i].st = "pending"
  /\ forwards' = [forwards EXCEPT ![i].st = "done"]
  /\ ev' = [kind |-> "io", input |-> <<>>,
            console |-> CASE outcome = "ok" -> <<"FWD OK">>
                          [] outcome = "http" -> <<"FWD HTTP">>
                          [] OTHER -> <<"FWD Error">>]
  /\ httpRes' = NoResponse
  /\ UNCHANGED <<config, open, buffer, lastPositions, appends, clock, lastDecoded, written,
                 framingVars, isoVars>>

\* GET /devices: res.json(lastPositions)
GetDevices ==
  /\ httpRes' = [status |-> 200, body |-> lastPositions]
  /\ ev' = [kind |-> "http", input |-> <<>>, console |-> <<>>]
  /\ UNCHANGED <<config, open, buffer, lastPositions, appends, forwards, clock,
                 lastDecoded, written, framingVars, isoVars>>

Next ==
  \/ \E c \in Conns : Connect(c)
  \/ \E c \in Conns, chunk \in Chunks : Data(c, chunk)
  \/ \E c \in Conns, hadError \in BOOLEAN : Close(c, hadError)
  \/ \E i \in 1..Len(appends), err \in BOOLEAN : AppendDone(i, err)
  \/ \E i \in 1..Len(forwards), outcome \in FetchOutcomes : FetchDone(i, outcome)
  \/ GetDevices

Spec == Init /\ [][Next]_vars

\* Every call of forwardPosition arms its own timer (line 93), which aborts
\* the call's fetch after FORWARD_TIMEOUT_MS, so the await of line 105 settles:
\* the continuation of each call runs.  A chunk of Chunks holds at most one
\* position, so a run dispatches at most MaxData calls.
ForwardSettles ==
  \A i \in 1..MaxData : WF_vars(\E outcome \in FetchOutcomes : FetchDone(i, outcome))

\* Forwarding runs: the server fed with the chunks that carry a position
ForwardingChunks == {FramePosA \o EvtFrame(D1), FramePosV, FrameZero}

ForwardingNext ==
  \/ \E c \in Conns : Connect(c)
  \/ \E c \in Conns, chunk \in ForwardingChunks : Data(c, chunk)
  \/ \E i \in 1..Len(appends), err \in BOOLEAN : AppendDone(i, err)
  \/ \E i \in 1..Len(forwards), outcome \in FetchOutcomes : FetchDone(i, outcome)

SpecForwarding == Init /\ [][ForwardingNext]_vars /\ ForwardSettles

-----------------------------------------------------------------------------
(* Decoder runs: one open connection receives one position frame of device 1
   whose date, time, latitude, longitude, speed and course are each well-formed
   or malformed; the handler decodes and routes it. *)

DateTokens == {<<"0", "1", "0", "1", "2", "5">>, <<"0", "1", "0", "1">>,
               <<"0", "1", "a", "1", "2", "5">>}
TimeTokens == {<<"1", "2", "0", "0", "0", "0">>, <<"1", "2">>}
LatTokens == {<<"5">>, <<"x">>, <<>>}
LonTokens == {<<"7">>, <<"y">>}
SpeedTokens == {<<"3", "6">>, <<"f", "a", "s", "t">>, <<>>}
CourseTokens == {<<"9", "0">>, <<"x">>}

DecodeFrame(date, time, lat, lon, speed, course) ==
  GpsFrame(D1, <<date, time, <<"A">>, lat, <<"N">>, lon, <<"E">>, speed, course>>)

DecodeInit ==
  /\ \E cfg \in Configs :
       /\ FORWARD_ENABLED = cfg[1]
       /\ FORWARD_ONLY_VALID = cfg[2]
       /\ FORWARD_ALLOW_ZERO_COORDS = cfg[3]
  /\ open = {"c1"}
  /\ buffer = [c \in {"c1"} |-> <<>>]
  /\ lastPositions = [d \in {} |-> <<>>]
  /\ appends = <<>> /\ forwards = <<>> /\ clock = 0
  /\ ev = NoEvent /\ httpRes = NoResponse
  /\ lastDecoded = [d \in {} |-> <<>>] /\ written = <<>>
  /\ fIn = <<>> /\ fDone = <<>> /\ fBuf = <<>> /\ fFrames = <<>> /\ fOut = <<>>
  /\ fSpan = FALSE
  /\ isoArgs = <<>> /\ isoRes = [done |-> FALSE]

\* the first data event of the connection delivers the frame
DecodeOne ==
  /\ clock = 0
  /\ \E date \in DateTokens, time \in TimeTokens, lat \in LatTokens, lon \in LonTokens,
        speed \in SpeedTokens, course \in CourseTokens :
        Data("c1", DecodeFrame(date, time, lat, lon, speed, course))

DecodeNext == DecodeOne

SpecDecode == DecodeInit /\ [][DecodeNext]_vars

-----------------------------------------------------------------------------
(* Framing runs: one connection, every stream over a small alphabet, every
   way of cutting it into chunks.  The data handler's buffering and decoding
   (lines 138-144) with the routing left out. *)

Alphabet == {"[", "]", "*", "a"}
MaxLen == 6
Streams == UNION {[1..n -> Alphabet] : n \in 1..MaxLen}

ServerIdle ==
  /\ FORWARD_ENABLED = FALSE /\ FORWARD_ONLY_VALID = FALSE
  /\ FORWARD_ALLOW_ZERO_COORDS = FALSE
  /\ open = {} /\ buffer = [c \in {} |-> <<>>] /\ lastPositions = [d \in {} |-> <<>>]
  /\ appends = <<>> /\ forwards = <<>> /\ clock = 0
  /\ ev = NoEvent /\ httpRes = NoResponse /\ lastDecoded = [d \in {} |-> <<>>]
  /\ written = <<>>

FramingInit ==
  /\ ServerIdle
  /\ fIn \in Streams
  /\ fDone = <<>> /\ fBuf = <<>> /\ fFrames = <<>> /\ fOut = <<>> /\ fSpan = FALSE
  /\ isoArgs = <<>> /\ isoRes = [done |-> FALSE]

\* socket.on('data') with the next k characters of the stream as the chunk
FramingData(k) ==
  /\ k \in 1..Len(fIn)
  /\ LET chunk == SubSeq(fIn, 1, k)
         x == extractFrames(fBuf \o chunk)
         out == decodeAll(x.frames, 0)
     IN /\ fBuf' = x.remainder
        /\ fFrames' = fFrames \o x.frames
        /\ fOut' = fOut \o out
        /\ fDone' = fDone \o chunk
        /\ fIn' = SubSeq(fIn, k + 1, Len(fIn))
        /\ fSpan' = (fSpan \/ (/\ indexOf(fBuf, "[", 0) # -1
                               /\ Len(x.frames) > 0
                               /\ parseFrame(x.frames[1], 0) # NoRecord))
  /\ UNCHANGED <<serverVars, isoVars>>

FramingNext == \E k \in 1..MaxLen : FramingData(k)

SpecFraming == FramingInit /\ [][FramingNext]_vars

-----------------------------------------------------------------------------
(* toIso runs: one call of toIso on arguments drawn from a grid of day, month,
   year, hour, minute and second digits, and on malformed arguments *)

DayDigits == {<<"0", "0">>, <<"0", "1">>, <<"2", "8">>, <<"2", "9">>, <<"3", "0">>,
              <<"3", "1">>, <<"3", "2">>, <<"9", "9">>}
MonthDigits == {<<"0", "0">>, <<"0", "1">>, <<"0", "2">>, <<"0", "4">>, <<"1", "2">>,
                <<"1", "3">>, <<"9", "9">>}
YearDigits == {<<"0", "0">>, <<"2", "4">>, <<"2", "5">>, <<"9", "9">>}
TimeDigits == {<<"0", "0", "0", "0", "0", "0">>, <<"2", "3", "5", "9", "5", "9">>,
               <<"1", "2", "0", "0", "0", "0">>, <<"2", "4", "0", "0", "0", "0">>,
               <<"1", "2", "6", "0", "0", "0">>, <<"1", "2", "0", "0", "6", "0">>,
               <<"9", "9", "9", "9", "9", "9">>}
Malformed == {<<>>, <<"1", "2", "3", "4", "5">>, <<"0", "1", "0", "1", "2", "5", "0">>,
              <<"0", "1", "x", "1", "2", "5">>, <<"-", "1", "0", "1", "2", "5">>}
DateArgs == {d \o m \o y : d \in DayDigits, m \in MonthDigits, y \in YearDigits} \cup Malformed
TimeArgs == TimeDigits \cup Malformed

IsoInit ==
  /\ ServerIdle
  /\ fIn = <<>> /\ fDone = <<>> /\ fBuf = <<>> /\ fFrames = <<>> /\ fOut = <<>>
  /\ fSpan = FALSE
  /\ isoArgs \in DateArgs \X TimeArgs
  /\ isoRes = [done |-> FALSE]

IsoCall ==
  /\ isoRes.done = FALSE
  /\ isoRes' = [done |-> TRUE, value |-> toIso(isoArgs[1], isoArgs[2])]
  /\ UNCHANGED <<serverVars, framingVars, isoArgs>>

IsoNext == IsoCall

SpecIso == IsoInit /\ [][IsoNext]_vars

-----------------------------------------------------------------------------
(* Claims *)

\* C1: for every stream and every way of cutting it into chunks, the frames
\* extracted and the records decoded so far are those of the delivered part of
\* the stream handed over as a single chunk.
C1_ChunkIndependent ==
  LET whole == extractFrames(fDone)
  IN /\ fFrames = whole.frames
     /\ fOut = decodeAll(whole.frames, 0)
     /\ fBuf = whole.remainder

\* C1's case: the stream is delivered in full, and a frame that began in one
\* chunk and ended in a later one was decoded
C1_Witness == fIn = <<>> /\ fSpan /\ Len(fOut) >= 1 /\ Len(fDone) > Len(fFrames[1])

SixDigits(s) == Len(s) = 6 /\ \A i \in 1..6 : s[i] \in Digits

TwoDigits(s, i) == 10 * DigitVal(s[i]) + DigitVal(s[i + 1])

IsLeap(y) == (y % 4 = 0 /\ y % 100 # 0) \/ y % 400 = 0

DaysInMonth(y, m) ==
  IF m \in {4, 6, 9, 11} THEN 30
  ELSE IF m = 2 THEN (IF IsLeap(y) THEN 29 ELSE 28)
  ELSE 31

\* the digits denote a calendar date and a time of day
Representable(dmy, hms) ==
  /\ TwoDigits(dmy, 3) \in 1..12
  /\ TwoDigits(dmy, 1) \in 1..DaysInMonth(2000 + TwoDigits(dmy, 5), TwoDigits(dmy, 3))
  /\ TwoDigits(hms, 1) <= 23
  /\ TwoDigits(hms, 3) <= 59
  /\ TwoDigits(hms, 5) <= 59

\* C8: toIso returns null unless both arguments are exactly 6 digits, null when
\* the digits denote no calendar date and time (never a wrapped date), and
\* otherwise the instant with day, month, year + 2000, hour, minute, second
\* taken from the digits.
C8_ToIsoContract ==
  isoRes.done =>
    LET dmy == isoArgs[1]
        hms == isoArgs[2]
    IN IF ~SixDigits(dmy) \/ ~SixDigits(hms) THEN isoRes.value = NULL
       ELSE IF ~Representable(dmy, hms) THEN isoRes.value = NULL
       ELSE isoRes.value = <<2000 + TwoDigits(dmy, 5), TwoDigits(dmy, 3), TwoDigits(dmy, 1),
                             TwoDigits(hms, 1), TwoDigits(hms, 3), TwoDigits(hms, 5)>>

\* the step just taken was a data event
DataEvent == ev.kind = "data"

\* the frames of a data event's input and the records decoded from them
FramesOf(input) == extractFrames(input).frames
RecordsOf(input, now) == decodeAll(FramesOf(input), now)

\* the handler's loop state before the data event (unprimed in an action)
LoopStart ==
  [lastPositions |-> lastPositions, written |-> written, appends |-> appends,
   forwards |-> forwards, console |-> <<>>]

\* usable coordinates as the specification words them
UsableCoords(r) ==
  /\ "lat" \in DOMAIN r
  /\ r.lat # NULL
  /\ r.lon # NULL
  /\ Abs(r.lat[1]) <= 90
  /\ Abs(r.lon[1]) <= 180
  /\ (FORWARD_ALLOW_ZERO_COORDS \/ ~(r.lat = <<0>> /\ r.lon = <<0>>))

\* the buffer without its unterminated fragments: an opening bracket that is
\* followed by the next opening bracket before any closing one
RECURSIVE WithoutFragments(_)
WithoutFragments(buf) ==
  LET start == indexOf(buf, "[", 0)
      nextOpen == indexOf(buf, "[", start + 1)
      close == indexOf(buf, "]", start + 1)
  IN IF start = -1 THEN buf
     ELSE IF nextOpen # -1 /\ (close = -1 \/ nextOpen < close)
     THEN slice(buf, 0, start) \o WithoutFragments(slice(buf, nextOpen, Len(buf)))
     ELSE IF close = -1 THEN buf
     ELSE slice(buf, 0, close + 1) \o WithoutFragments(slice(buf, close + 1, Len(buf)))

\* C2: an unterminated fragment is dropped and the well-formed frames that
\* follow it are routed to the store with the same deviceId and fields as if
\* the fragment had not been sent.
C2_FragmentDropped ==
  [][ev'.kind = "data" =>
       \E input \in {ev'.input}, now \in {clock'} :
         lastPositions' =
           routeAll(LoopStart, FramesOf(WithoutFragments(input)), now).lastPositions]_vars

\* a frame whose body has fewer than 4 *-separated components
ShortFrame(frame) == Cardinality({i \in 1..Len(frame) : frame[i] = "*"}) < 3
NotShortFrame(frame) == ~ShortFrame(frame)

\* C3: a frame with fewer than 4 components is skipped silently: the data
\* event leaves the store, the dispatched appends and forwards and the console
\* as the same event without that frame would, and closes no connection.
C3_ShortFrameSkipped ==
  [][ev'.kind = "data" =>
       \E input \in {ev'.input}, now \in {clock'} :
       \E s \in {routeAll(LoopStart, SelectSeq(FramesOf(input), NotShortFrame), now)} :
          /\ lastPositions' = s.lastPositions
          /\ appends' = s.appends
          /\ forwards' = s.forwards
          /\ ev'.console = s.console
          /\ open' = open]_vars

\* C3's case: a short frame was followed in its chunk by a frame of device 2,
\* which was routed
C3_Witness ==
  /\ DataEvent
  /\ \E i \in 1..Len(FramesOf(ev.input)) : ShortFrame(FramesOf(ev.input)[i])
  /\ D2 \in DOMAIN lastPositions
  /\ "lastEvent" \in DOMAIN lastPositions[D2]
  /\ lastPositions[D2].lastEvent.cmd = <<"L", "K">>
  /\ lastPositions[D2].lastEvent = lastDecoded[D2]

\* every device's entry reflects its latest decoded record
Reflects(store) ==
  /\ DOMAIN store = DOMAIN lastDecoded
  /\ \A d \in DOMAIN lastDecoded :
       IF UsableCoords(lastDecoded[d]) THEN store[d] = lastDecoded[d]
       ELSE "lastEvent" \in DOMAIN store[d] /\ store[d].lastEvent = lastDecoded[d]

\* C4: in every reachable state each device's entry reflects the latest decoded
\* frame of that device (the entry is that record if it had usable coordinates,
\* else its lastEvent is that record), and a reader gets the store as it is.
C4_StoreReflectsLatest ==
  /\ Reflects(lastPositions)
  /\ httpRes.status = 200 => httpRes.body = lastPositions

\* C4's case: a reader reads while two connections are open, one device's
\* latest record is a usable position and another's is not
C4_Witness ==
  /\ httpRes.status = 200
  /\ Cardinality(open) = 2
  /\ \E d \in DOMAIN lastDecoded : UsableCoords(lastDecoded[d])
  /\ \E d \in DOMAIN lastDecoded : ~UsableCoords(lastDecoded[d])

\* the entry the write rule gives device d after the records rs, in order
RuleEntry(store, d, rs) ==
  LET usable == {i \in 1..Len(rs) : UsableCoords(rs[i])}
      k == IF usable = {} THEN 0 ELSE CHOOSE i \in usable : \A j \in usable : j <= i
      base == IF k > 0 THEN rs[k]
              ELSE IF d \in DOMAIN store THEN store[d]
              ELSE <<>>
  IN IF k = Len(rs) THEN base
     ELSE [f \in DOMAIN base \cup {"lastEvent"} |->
             IF f = "lastEvent" THEN rs[Len(rs)] ELSE base[f]]

\* C5: the write rule.  A usable position replaces the entry wholesale; any
\* other record leaves the entry's fields as they are and sets lastEvent,
\* creating an entry with only lastEvent when there was none.
C5_WriteRule ==
  [][ev'.kind = "data" =>
       \E input \in {ev'.input}, now \in {clock'} :
       \E recs \in {RecordsOf(input, now)} :
       LET ids == {recs[i].deviceId : i \in 1..Len(recs)}
           of(d) == SelectSeq(recs, LAMBDA r : r.deviceId = d)
       IN /\ DOMAIN lastPositions' = DOMAIN lastPositions \cup ids
          /\ \A d \in DOMAIN lastPositions' :
               lastPositions'[d] = IF d \in ids THEN RuleEntry(lastPositions, d, of(d))
                                   ELSE lastPositions[d]]_vars

\* C5's case: position R1 then event R2 of device 1; the entry holds R1's
\* fields and lastEvent = R2
C5_Witness ==
  /\ D1 \in DOMAIN lastPositions
  /\ DOMAIN lastPositions[D1] =
       {"deviceId", "vendor", "cmd", "time", "valid", "lat", "lon", "speedKph",
        "course", "raw", "receivedAt", "lastEvent"}
  /\ lastPositions[D1].lat = <<5>>
  /\ lastPositions[D1].lastEvent.cmd = <<"L", "K">>

\* C6: a usable position is forwarded iff forwarding is enabled and the
\* forward-only-valid policy is off or the record is valid; every usable
\* position is logged whether or not it is forwarded.
C6_ForwardPolicy ==
  [][ev'.kind = "data" =>
       \E input \in {ev'.input}, now \in {clock'} :
       \E usable \in {SelectSeq(RecordsOf(input, now), UsableCoords)} :
       \E eligible \in {SelectSeq(usable, LAMBDA r :
                           FORWARD_ENABLED /\ (~FORWARD_ONLY_VALID \/ r.valid))} :
          /\ forwards' = forwards \o [i \in 1..Len(eligible) |-> forwardPosition(eligible[i])]
          /\ appends' = appends \o [i \in 1..Len(usable) |->
                                     [line |-> JSONstringify(usable[i]), st |-> "pending"]]]_vars

\* C6's case: with forward-only-valid on, a usable position with valid = false
\* was stored and logged and nothing was forwarded
C6_Witness ==
  /\ FORWARD_ENABLED /\ FORWARD_ONLY_VALID
  /\ DataEvent
  /\ D1 \in DOMAIN lastPositions
  /\ "valid" \in DOMAIN lastPositions[D1]
  /\ lastPositions[D1].valid = FALSE
  /\ Len(appends) = 1
  /\ forwards = <<>>

ZeroRecord(r) == "lat" \in DOMAIN r /\ r.lat = <<0>> /\ r.lon = <<0>>
ZeroLine(line) == line[6] = <<"lat", <<"0">>>> /\ line[7] = <<"lon", <<"0">>>>
ZeroRequest(req) ==
  req.params[2] = <<"lat", <<"0">>>> /\ req.params[3] = <<"lon", <<"0">>>>

\* a (0,0) record that is the latest of its device is stored as the device's
\* position and logged, and forwarded if the policy allows it
ZeroIncluded ==
  \A d \in DOMAIN lastDecoded :
    ZeroRecord(lastDecoded[d]) =>
      /\ lastPositions[d] = lastDecoded[d]
      /\ \E i \in 1..Len(appends) : appends[i].line = JSONstringify(lastDecoded[d])
      /\ (FORWARD_ENABLED /\ (~FORWARD_ONLY_VALID \/ lastDecoded[d].valid)) =>
           \E i \in 1..Len(forwards) : forwards[i].params = forwardPosition(lastDecoded[d]).params

ZeroNotLoggedNorForwarded ==
  /\ \A i \in 1..Len(appends) : ~ZeroLine(appends[i].line)
  /\ \A i \in 1..Len(forwards) : ~ZeroRequest(forwards[i])

\* C7 as claimed: with the allow-zero flag off a (0,0) record is nowhere in the
\* store, nor logged, nor forwarded; with the flag on it is in all three.
C7_ZeroExcludedFromStore ==
  IF FORWARD_ALLOW_ZERO_COORDS THEN ZeroIncluded
  ELSE /\ ZeroNotLoggedNorForwarded
       /\ \A d \in DOMAIN lastPositions :
            /\ ~ZeroRecord(lastPositions[d])
            /\ "lastEvent" \in DOMAIN lastPositions[d] => ~ZeroRecord(lastPositions[d].lastEvent)

\* C7 amended: with the allow-zero flag off a (0,0) record is never a device's
\* position, nor logged, nor forwarded, and is kept in the store as the
\* device's lastEvent; with the flag on it is stored as the position, logged,
\* and forwarded subject to the policy.
C7_ZeroKeptAsLastEvent ==
  IF FORWARD_ALLOW_ZERO_COORDS THEN ZeroIncluded
  ELSE /\ ZeroNotLoggedNorForwarded
       /\ \A d \in DOMAIN lastPositions : ~ZeroRecord(lastPositions[d])
       /\ \A d \in DOMAIN lastDecoded :
            ZeroRecord(lastDecoded[d]) =>
              /\ "lastEvent" \in DOMAIN lastPositions[d]
              /\ lastPositions[d].lastEvent = lastDecoded[d]

\* C7's case: the flag is off and device 2 sent a (0,0) frame
C7_Witness ==
  /\ ~FORWARD_ALLOW_ZERO_COORDS
  /\ D2 \in DOMAIN lastDecoded
  /\ ZeroRecord(lastDecoded[D2])

SomeForwardPending == \E i \in 1..Len(forwards) : forwards[i].st = "pending"

\* the data handler of connection c runs when a chunk arrives
DataEnabled(c) == dataHandled(c)

\* C9: forwarding is fire-and-forget.  A data event leaves every forward it
\* dispatched pending and has routed the frames after it; data events of every
\* open connection are handled while forwards are pending.
C9_FireAndForget ==
  /\ [][ev'.kind = "data" =>
          /\ \A i \in 1..Len(forwards') :
               IF i <= Len(forwards) THEN forwards'[i] = forwards[i]
               ELSE forwards'[i].st = "pending"
          /\ \E input \in {ev'.input}, now \in {clock'} :
             \E recs \in {RecordsOf(input, now)} :
                Len(recs) > 0 =>
                  LET r == recs[Len(recs)]
                      e == lastPositions'[r.deviceId]
                  IN e = r \/ ("lastEvent" \in DOMAIN e /\ e.lastEvent = r)]_vars
  /\ [](SomeForwardPending => \A c \in open : DataEnabled(c))

\* C9's case: a data event is handled while the forward of an earlier event is
\* pending; its first frame is forwarded and its second frame is routed
C9_Witness ==
  /\ DataEvent
  /\ ev.console = <<"POS->FWD", "EVT">>
  /\ Len(forwards) >= 2
  /\ \A i \in 1..Len(forwards) : forwards[i].st = "pending"
  /\ "lastEvent" \in DOMAIN lastPositions[D1]

\* the step just taken was the failure of a log write or of a forward
IoFailure(e) == e.kind = "io" /\ e.console # <<>> /\ e.console # <<"FWD OK">>
IoFailed == IoFailure(ev)

\* C10: a failed log write or forward changes neither the store, nor a buffer,
\* nor the open connections; data events are handled after it, and what a data
\* event does to the store does not depend on the appends and forwards.
C10_IoFailuresIsolated ==
  /\ [][IoFailure(ev') =>
          lastPositions' = lastPositions /\ buffer' = buffer /\ open' = open]_vars
  /\ [][ev'.kind = "data" =>
          \E input \in {ev'.input}, now \in {clock'} :
            lastPositions' =
              routeAll([LoopStart EXCEPT !.appends = <<>>, !.forwards = <<>>],
                       FramesOf(input), now).lastPositions]_vars
  /\ [](IoFailed => \A c \in open : DataEnabled(c))

\* C10's case: a log write failed while a connection holds a partial frame and
\* the store holds a device
C10_Witness ==
  /\ IoFailed
  /\ ev.console = <<"File write error">>
  /\ \E c \in open : buffer[c] # <<>>
  /\ DOMAIN lastPositions # {}

\* C10's case for forwards: a forward failed in the same situation
C10_ForwardWitness ==
  /\ IoFailed
  /\ ev.console \in {<<"FWD HTTP">>, <<"FWD Error">>}
  /\ \E c \in open : buffer[c] # <<>>
  /\ DOMAIN lastPositions # {}


ForwardedBy(console) == Cardinality({k \in 1..Len(console) : console[k] = "POS->FWD"})

\* C11: one request attempt per forwarded position; an attempt ends once, as
\* success or as a logged failure (a rejection includes the abort by its own
\* timeout), the end of one attempt touches no other attempt, no attempt is
\* queued again, and every attempt eventually ends.
C11_OneAttemptEachSettles ==
  /\ [][/\ Len(forwards') =
             Len(forwards) + (IF ev'.kind = "data" THEN ForwardedBy(ev'.console) ELSE 0)
        /\ \A i \in 1..Len(forwards) :
             /\ forwards'[i].params = forwards[i].params
             /\ forwards[i].st = "done" => forwards'[i] = forwards[i]
             /\ forwards'[i] # forwards[i] =>
                  /\ ev'.kind = "io"
                  /\ ev'.console \in {<<"FWD OK">>, <<"FWD HTTP">>, <<"FWD Error">>}
                  /\ \A j \in 1..Len(forwards) : j # i => forwards'[j] = forwards[j]]_vars
  /\ \A i \in 1..MaxData :
       (Len(forwards) >= i) ~> (Len(forwards) >= i /\ forwards[i].st = "done")

\* C11's case: two attempts were in flight; the first one failed and is done,
\* the second one is still pending
C11_Witness ==
  /\ Len(forwards) >= 2
  /\ forwards[1].st = "done"
  /\ forwards[2].st = "pending"
  /\ ev.kind = "io"
  /\ ev.console = <<"FWD Error">>


\* the fields of the frame of a decoder run, as sent
SentFields == split(slice(ev.input, 0, Len(ev.input) - 1), ",")

\* what a numeric field decodes to: the value of a run of digits, 0 for an
\* empty field, null for anything else
FieldValue(tok) ==
  IF tok = <<>> THEN <<0>> ELSE IF IsDigits(tok) THEN <<DecimalValue(tok)>> ELSE NULL

\* the record of a decoder run has null exactly in its malformed fields and
\* the sent value in the others
PerField(f, r) ==
  /\ r.deviceId = D1 /\ r.cmd = <<"U", "D">> /\ r.valid = TRUE
  /\ r.time = IF SixDigits(f[2]) /\ SixDigits(f[3]) THEN <<2025, 1, 1, 12, 0, 0>> ELSE NULL
  /\ r.lat = FieldValue(f[5])
  /\ r.lon = FieldValue(f[7])
  /\ r.speedKph = FieldValue(f[9])
  /\ r.course = FieldValue(f[10])

\* C12 as claimed: whatever fields are malformed, the record has null in those
\* fields only, is in the store and is logged.
C12_MalformedStillLogged ==
  DataEvent =>
    /\ D1 \in DOMAIN lastDecoded
    /\ PerField(SentFields, lastDecoded[D1])
    /\ D1 \in DOMAIN lastPositions
    /\ \E i \in 1..Len(appends) : appends[i].line = JSONstringify(lastDecoded[D1])

\* C12 amended: a malformed date or time gives time = null, a non-numeric
\* speed, course or coordinate gives null in that field only (an empty one
\* gives 0); with both coordinates numeric the record is stored as the
\* device's position and logged; with a non-numeric coordinate it is stored as
\* the device's lastEvent and is neither logged nor forwarded.
C12_PerFieldMalformation ==
  DataEvent =>
    /\ D1 \in DOMAIN lastDecoded
    /\ PerField(SentFields, lastDecoded[D1])
    /\ IF lastDecoded[D1].lat # NULL /\ lastDecoded[D1].lon # NULL
       THEN /\ lastPositions = [d \in {D1} |-> lastDecoded[D1]]
            /\ Len(appends) = 1
            /\ appends[1].line = JSONstringify(lastDecoded[D1])
       ELSE /\ lastPositions = [d \in {D1} |-> [lastEvent |-> lastDecoded[D1]]]
            /\ appends = <<>>
            /\ forwards = <<>>

\* C12's case: a frame with a malformed date, a non-numeric latitude and a
\* non-numeric speed was decoded and routed
C12_Witness ==
  /\ DataEvent
  /\ ~SixDigits(SentFields[2])
  /\ SentFields[5] = <<"x">>
  /\ SentFields[9] = <<"f", "a", "s", "t">>
  /\ lastDecoded[D1].lat = NULL
  /\ lastDecoded[D1].lon = <<7>>
  /\ "lastEvent" \in DOMAIN lastPositions[D1]

\* C12's case with numeric coordinates: the record with time, speed and course
\* null is the device's position and was logged
C12_StoredWitness ==
  /\ DataEvent
  /\ D1 \in DOMAIN lastPositions
  /\ lastPositions[D1] = lastDecoded[D1]
  /\ lastDecoded[D1].time = NULL
  /\ lastDecoded[D1].speedKph = NULL
  /\ lastDecoded[D1].course = NULL
  /\ Len(appends) = 1


\* a store entry without its lastEvent
TopLevel(e) == [f \in DOMAIN e \ {"lastEvent"} |-> e[f]]

\* C13: the appends issued are, one for one and in order, the records written
\* to the store as a device's position; each of them has usable coordinates;
\* the usable positions decoded by a data event are the last of them; and a
\* device's position in the store is one of them.
C13_OneAppendPerStoredPosition ==
  /\ Len(appends) = Len(written)
  /\ \A i \in 1..Len(written) :
       appends[i].line = JSONstringify(written[i]) /\ UsableCoords(written[i])
  /\ \A d \in DOMAIN lastPositions :
       "lat" \in DOMAIN lastPositions[d] =>
         \E i \in 1..Len(written) : written[i] = TopLevel(lastPositions[d])
  /\ DataEvent =>
       LET usable == SelectSeq(RecordsOf(ev.input, clock), UsableCoords)
           n == Len(written)
       IN Len(usable) <= n /\ SubSeq(written, n - Len(usable) + 1, n) = usable

\* C13's case: two positions were written and logged, in this order, and an
\* event of the same device was stored as lastEvent without an append
C13_Witness ==
  /\ Len(appends) = 2
  /\ written[1].receivedAt < written[2].receivedAt
  /\ "lastEvent" \in DOMAIN lastPositions[written[2].deviceId]
  /\ "lat" \notin DOMAIN lastPositions[written[2].deviceId].lastEvent


\* C14: as long as the delivered stream holds no '[', no frame is extracted
\* and the buffer retains every character delivered, ']' included.
C14_NoOpenBracketRetained ==
  indexOf(fDone, "[", 0) = -1 => fFrames = <<>> /\ fBuf = fDone


\* C15: a buffer exists for open connections only and a new connection starts
\* with an empty one; a data event decodes the connection's own buffer
\* followed by the chunk and leaves every other buffer as it is; a close or
\* error changes neither the store nor another connection's buffer.
C15_BuffersIsolated ==
  [][/\ DOMAIN buffer' = open'
     /\ \A c \in open' \ open : buffer'[c] = <<>>
     /\ ev'.kind = "data" =>
          \E c \in open, chunk \in Chunks :
            /\ ev'.input = buffer[c] \o chunk
            /\ \A other \in open \ {c} : buffer'[other] = buffer[other]
     /\ ev'.kind # "data" => \A c \in open \cap open' : buffer'[c] = buffer[c]
     /\ open' # open => lastPositions' = lastPositions]_vars

\* C15's case: one connection holds the first piece of a frame, the second
\* piece arrived on the other connection, and nothing was decoded
C15_Witness ==
  /\ DataEvent
  /\ Cardinality(open) = 2
  /\ ev.input = SubSeq(FrameSplit, 15, Len(FrameSplit))
  /\ \E c \in open : buffer[c] = SubSeq(FrameSplit, 1, 14)
  /\ DOMAIN lastPositions = {}


\* the devices of a sequence of records
DevicesOf(recs) == {recs[i].deviceId : i \in 1..Len(recs)}

\* C16: no step removes a device from the store; a data event adds the
\* devices of its decoded frames and leaves the entry of every other device
\* as it is; no other step changes the store.
C16_DevicesIndependent ==
  [][/\ DOMAIN lastPositions \subseteq DOMAIN lastPositions'
     /\ ev'.kind # "data" => lastPositions' = lastPositions
     /\ ev'.kind = "data" =>
          \E input \in {ev'.input}, now \in {clock'} :
          \E ids \in {DevicesOf(RecordsOf(input, now))} :
             /\ DOMAIN lastPositions' = DOMAIN lastPositions \cup ids
             /\ \A d \in DOMAIN lastPositions \ ids : lastPositions'[d] = lastPositions[d]]_vars

\* C16's case: the store holds devices 1 and 2 and the data event just handled
\* carried frames of device 1 only
C16_Witness ==
  /\ DataEvent
  /\ DOMAIN lastPositions = {D1, D2}
  /\ DevicesOf(RecordsOf(ev.input, clock)) = {D1}


\* the coordinates written in a log line and in a forward request
LineCoords(line) == [lat |-> Number(line[6][2]), lon |-> Number(line[7][2])]
RequestCoords(req) == [lat |-> Number(req.params[2][2]), lon |-> Number(req.params[3][2])]

\* C17: every position held by the store, every log line and every forward
\* request has finite coordinates with |lat| <= 90 and |lon| <= 180, and is
\* not (0,0) unless the allow-zero flag is set.
C17_OnlyUsableCoordinates ==
  /\ \A d \in DOMAIN lastPositions :
       "lat" \in DOMAIN lastPositions[d] => UsableCoords(lastPositions[d])
  /\ \A i \in 1..Len(appends) : UsableCoords(LineCoords(appends[i].line))
  /\ \A i \in 1..Len(forwards) : UsableCoords(RequestCoords(forwards[i]))

\* C17's case: a frame with latitude 95 was received; device 1's position is
\* stored, logged and forwarded
C17_Witness ==
  /\ D2 \in DOMAIN lastDecoded
  /\ "lat" \in DOMAIN lastDecoded[D2]
  /\ lastDecoded[D2].lat = <<95>>
  /\ D1 \in DOMAIN lastPositions
  /\ "lat" \in DOMAIN lastPositions[D1]
  /\ Len(appends) >= 1
  /\ Len(forwards) >= 1


NonNegativeSpeed(r) ==
  "speedKph" \in DOMAIN r => r.speedKph = NULL \/ r.speedKph[1] >= 0

\* C18: the speedKph of every decoded record, of every record written to the
\* store and logged, and of every entry of the store is null or non-negative.
C18_SpeedNonNegative ==
  /\ \A d \in DOMAIN lastDecoded : NonNegativeSpeed(lastDecoded[d])
  /\ \A i \in 1..Len(written) : NonNegativeSpeed(written[i])
  /\ \A d \in DOMAIN lastPositions : NonNegativeSpeed(lastPositions[d])


CountOf(seq, ch) == Cardinality({i \in 1..Len(seq) : seq[i] = ch})

\* a frame begins with '[' and holds one ']', its last character
WellDelimited(f) ==
  Len(f) >= 2 /\ f[1] = "[" /\ f[Len(f)] = "]" /\ CountOf(f, "]") = 1

\* the frames occur in the stream at or after position from, one after
\* another, no two sharing a character
RECURSIVE Located(_, _, _)
Located(frames, stream, from) ==
  \/ frames = <<>>
  \/ LET f == Head(frames)
     IN \E p \in from..(Len(stream) - Len(f) + 1) :
          /\ SubSeq(stream, p, p + Len(f) - 1) = f
          /\ Located(Tail(frames), stream, p + Len(f))

\* C19: after every data event the buffer holds no ']' and is the end of the
\* delivered stream; every frame extracted begins with '[' and holds exactly
\* one ']', its last character; the frames extracted over all chunks lie one
\* after another in the part of the stream before the buffer, so no character
\* is in two frames and no frame is extracted twice.
C19_BufferAndFramesDisjoint ==
  /\ CountOf(fBuf, "]") = 0
  /\ \A i \in 1..Len(fFrames) : WellDelimited(fFrames[i])
  /\ Len(fBuf) <= Len(fDone)
  /\ SubSeq(fDone, Len(fDone) - Len(fBuf) + 1, Len(fDone)) = fBuf
  /\ Located(fFrames, SubSeq(fDone, 1, Len(fDone) - Len(fBuf)), 1)

\* C19's case: two frames were extracted, a stray ']' was dropped and a
\* partial frame is retained
C19_Witness ==
  /\ fIn = <<>>
  /\ Len(fFrames) = 2
  /\ CountOf(fDone, "]") > 2
  /\ fBuf = <<"[">>


\* the requests are those of records of recs, in order
RECURSIVE BuiltFrom(_, _)
BuiltFrom(reqs, recs) ==
  \/ reqs = <<>>
  \/ /\ recs # <<>>
     /\ \/ /\ Head(reqs).params = forwardPosition(Head(recs)).params
           /\ BuiltFrom(Tail(reqs), Tail(recs))
        \/ BuiltFrom(reqs, Tail(recs))

\* C20: whatever the store holds now, every log line is the text of the
\* record written when the append was issued and every request carries the
\* parameters of the record it was dispatched for; no step changes a record
\* once written, the line of an append or the parameters of a request.
C20_FixedAtDispatch ==
  /\ [](/\ Len(appends) = Len(written)
        /\ \A i \in 1..Len(appends) : appends[i].line = JSONstringify(written[i])
        /\ BuiltFrom(forwards, written))
  /\ [][/\ \A i \in 1..Len(written) :
             written'[i] = written[i] /\ appends'[i].line = appends[i].line
        /\ \A i \in 1..Len(forwards) : forwards'[i].params = forwards[i].params]_vars

\* C20's case: the append and the request of device 1's first position are
\* pending while the store already holds a newer position of device 1, whose
\* parameters would differ
C20_Witness ==
  /\ Len(forwards) >= 1
  /\ forwards[1].st = "pending"
  /\ appends[1].st = "pending"
  /\ written[1].deviceId = D1
  /\ TopLevel(lastPositions[D1]) # written[1]
  /\ forwardPosition(lastPositions[D1]).params # forwards[1].params

====
